---- MODULE Spec2Model ----
(***************************************************************************)
(* A model of relay_control.py: the CH340 USB relay controller.            *)
(*                                                                         *)
(* Python values are represented as follows.                               *)
(*   bytes            a sequence of integers 0..255                        *)
(*   str              a sequence of one-character strings (descriptions),  *)
(*                    or a TLA+ string (port names, messages)              *)
(*   Optional[T]      a record [isNone, val]                               *)
(*   Optional[bool]   the verdict: ON (True), OFF (False), UNKNOWN (None)  *)
(*   an exception     a record [type, msg, port, cause]                    *)
(***************************************************************************)
EXTENDS Integers, Sequences, FiniteSets, TLC

VARIABLES
    mode,          \* "main": the CLI entry point; "lib": a caller of the class; "parse": _parse_status alone
    args,          \* the parsed command line: [action, port]
    comports,      \* what serial.tools.list_ports.comports() enumerates
    pc,            \* position of the running code
    port_name,     \* RelayController.port_name
    serial_port,   \* RelayController.serial_port: [isNone, is_open, port]
    op,            \* the public operation being executed
    command,       \* the command argument of _send_command
    response,      \* the response local of _execute_action
    status,        \* the verdict returned by the last operation
    exc,           \* the exception in flight (or the last one raised)
    rc,            \* the return value of main
    inbuf,         \* bytes buffered by the OS for reading on the port
    inflight,      \* bytes the device has emitted that have not arrived yet
    written,       \* history: every byte sequence passed to serial_port.write
    opens,         \* history: every serial.Serial(...) open attempt
    scans,         \* history: number of comports() enumerations
    calls,         \* history: number of public operations called
    exits,         \* history: number of __exit__ calls
    call,          \* history of the current operation call: what it wrote, which
                   \* transport call failed, how it ended
    relay,         \* the device: state of the relay contacts (1 closed, 0 open)
    hist           \* history: the candidates list built, whether __enter__
                   \* completed, the bytes buffered when the port was opened,
                   \* every byte of the connection's input stream (bytes
                   \* left in the buffer by __enter__, then every byte the
                   \* device emitted), every byte read, and a
                   \* summary of the previous operation call

vars == <<mode, args, comports, pc, port_name, serial_port, op, command,
          response, status, exc, rc, inbuf, inflight, written, opens,
          scans, calls, exits, call, relay, hist>>

----------------------------------------------------------------------------
(* Bounds of the model *)

\* longest response handed to _parse_status when it is explored alone
MaxRespLen == 5
\* longest enumerated port list
MaxPorts == 2
\* most operations a caller of the class issues on one controller
MaxCalls == 2

----------------------------------------------------------------------------
(* Constants of the program *)

CMD_OFF == <<160, 1, 0, 161>>
CMD_ON == <<160, 1, 3, 164>>
CMD_TOGGLE == <<160, 1, 4, 165>>
CMD_STATUS == <<160, 1, 5, 166>>

RESPONSE_HEADER == <<160, 1>>
STATE_ON == 1
STATE_OFF == 0

CH340_KEYWORDS == << <<"C","H","3","4","0">>, <<"C","H","3","4","1">>,
                     <<"U","S","B","-","S","E","R","I","A","L">> >>
USB_KEYWORDS == << <<"U","S","B">> >>

----------------------------------------------------------------------------
(* Python values *)

ON == "ON"
OFF == "OFF"
UNKNOWN == "UNKNOWN"
Verdicts == {ON, OFF, UNKNOWN}

NoneBytes == [isNone |-> TRUE, val |-> <<>>]
SomeBytes(b) == [isNone |-> FALSE, val |-> b]
NoneStr == [isNone |-> TRUE, val |-> ""]
SomeStr(s) == [isNone |-> FALSE, val |-> s]
NoneDesc == [isNone |-> TRUE, val |-> <<>>]
SomeDesc(d) == [isNone |-> FALSE, val |-> d]

NoExc == [type |-> "none", msg |-> "", port |-> "", cause |-> ""]
RuntimeError(m, p, c) == [type |-> "RuntimeError", msg |-> m, port |-> p, cause |-> c]
SerialException(c) == [type |-> "SerialException", msg |-> "", port |-> "", cause |-> c]
IndexError == [type |-> "IndexError", msg |-> "", port |-> "", cause |-> ""]
KeyboardInterrupt == [type |-> "KeyboardInterrupt", msg |-> "", port |-> "", cause |-> ""]

NoSerial == [isNone |-> TRUE, is_open |-> FALSE, port |-> ""]
NoCall == [op |-> "", wasOpen |-> FALSE, writes |-> <<>>, failed |-> "none",
           reads |-> 0, slept |-> FALSE, outcome |-> "none", exc |-> NoExc,
           steps |-> <<>>, early |-> FALSE, avail |-> -1, verdict |-> "none",
           reply |-> <<>>, base |-> 0, readFrom |-> 0]
NoPrev == [op |-> "", outcome |-> "none", verdict |-> "none", exact |-> FALSE]
NoHist == [candidates |-> <<>>, entered |-> FALSE, stale |-> <<>>, emitted |-> <<>>,
           consumed |-> <<>>, prev |-> NoPrev]

----------------------------------------------------------------------------
(* _parse_status *)

\* response[i] of Python (0-based); -1 stands for an IndexError
Item(b, i) == IF i + 1 <= Len(b) THEN b[i + 1] ELSE -1

\* a variant accepting only frames of exactly 4 bytes
ParseExactLen(resp) ==
    IF resp.isNone \/ Len(resp.val) = 0 \/ Len(resp.val) # 4
    THEN [exc |-> NoExc, ret |-> UNKNOWN]
    ELSE IF Item(resp.val, 0) = RESPONSE_HEADER[1] /\ Item(resp.val, 1) = RESPONSE_HEADER[2]
         THEN [exc |-> NoExc, ret |-> IF Item(resp.val, 2) = STATE_ON THEN ON ELSE OFF]
         ELSE [exc |-> NoExc, ret |-> UNKNOWN]

\* a variant whose length check is off by one
ParseShortLen(resp) ==
    IF resp.isNone \/ Len(resp.val) = 0 \/ Len(resp.val) < 3
    THEN [exc |-> NoExc, ret |-> UNKNOWN]
    ELSE IF Item(resp.val, 0) = RESPONSE_HEADER[1] /\ Item(resp.val, 1) = RESPONSE_HEADER[2]
         THEN [exc |-> NoExc, ret |-> IF Item(resp.val, 2) = STATE_ON THEN ON ELSE OFF]
         ELSE [exc |-> NoExc, ret |-> UNKNOWN]

\* a variant without the length check: short frames are indexed
ParseNoLenCheck(resp) ==
    IF resp.isNone \/ Len(resp.val) = 0
    THEN [exc |-> NoExc, ret |-> UNKNOWN]
    ELSE IF Item(resp.val, 0) = RESPONSE_HEADER[1] /\ Item(resp.val, 1) = -1
         THEN [exc |-> IndexError, ret |-> UNKNOWN]
         ELSE IF Item(resp.val, 0) = RESPONSE_HEADER[1] /\ Item(resp.val, 1) = RESPONSE_HEADER[2]
              THEN IF Item(resp.val, 2) = -1
                   THEN [exc |-> IndexError, ret |-> UNKNOWN]
                   ELSE [exc |-> NoExc,
                         ret |-> IF Item(resp.val, 2) = STATE_ON THEN ON ELSE OFF]
              ELSE [exc |-> NoExc, ret |-> UNKNOWN]

\* the result of _parse_status(response): the exception raised, if any, and
\* the value returned
_parse_status(resp) ==
    IF resp.isNone \/ Len(resp.val) = 0 \/ Len(resp.val) < 4
    THEN [exc |-> NoExc, ret |-> UNKNOWN]
    ELSE IF Item(resp.val, 0) = -1
              \/ (Item(resp.val, 0) = RESPONSE_HEADER[1] /\ Item(resp.val, 1) = -1)
         THEN [exc |-> IndexError, ret |-> UNKNOWN]
         ELSE IF Item(resp.val, 0) = RESPONSE_HEADER[1] /\ Item(resp.val, 1) = RESPONSE_HEADER[2]
              THEN IF Item(resp.val, 2) = -1
                   THEN [exc |-> IndexError, ret |-> UNKNOWN]
                   ELSE [exc |-> NoExc,
                         ret |-> IF Item(resp.val, 2) = STATE_ON THEN ON ELSE OFF]
              ELSE [exc |-> NoExc, ret |-> UNKNOWN]

----------------------------------------------------------------------------
(* _auto_detect_port: classification and ranking of the enumerated ports *)

LowerChars == <<"a","b","c","e","h","i","l","m","o","r","s","u">>
UpperChars == <<"A","B","C","E","H","I","L","M","O","R","S","U">>

\* str.upper() on one character
UpperChar(c) ==
    IF \E i \in 1..Len(LowerChars) : LowerChars[i] = c
    THEN UpperChars[CHOOSE i \in 1..Len(LowerChars) : LowerChars[i] = c]
    ELSE c

\* (port.description or "").upper()
UpperDesc(description) ==
    IF description.isNone \/ Len(description.val) = 0
    THEN <<>>
    ELSE [i \in 1..Len(description.val) |-> UpperChar(description.val[i])]

\* kw in desc
Contains(desc, kw) ==
    \E i \in 1..(Len(desc) - Len(kw) + 1) : SubSeq(desc, i, i + Len(kw) - 1) = kw

\* any(kw in desc for kw in keywords)
AnyKeyword(desc, keywords) ==
    \E k \in 1..Len(keywords) : Contains(desc, keywords[k])

\* a classification that tests the generic keyword first
TierGenericFirst(port) ==
    IF AnyKeyword(UpperDesc(port.description), USB_KEYWORDS) THEN 2
    ELSE IF AnyKeyword(UpperDesc(port.description), CH340_KEYWORDS) THEN 1
    ELSE 0

\* the tier the loop body gives a port: 1, 2, or 0 when it appends nothing
Tier(port) ==
    IF AnyKeyword(UpperDesc(port.description), CH340_KEYWORDS) THEN 1
    ELSE IF AnyKeyword(UpperDesc(port.description), USB_KEYWORDS) THEN 2
    ELSE 0

\* the candidates list after the loop over comports(), in enumeration order
RECURSIVE Candidates(_)
Candidates(ports) ==
    IF ports = <<>> THEN <<>>
    ELSE LET port == Head(ports)
             rest == Candidates(Tail(ports))
         IN  IF Tier(port) = 0 THEN rest
             ELSE <<[device |-> port.device, description |-> port.description,
                     tier |-> Tier(port)]>> \o rest

\* insertion of x behind every element whose key is not greater (stable)
RECURSIVE InsertStable(_, _)
InsertStable(sorted, x) ==
    IF sorted = <<>> THEN <<x>>
    ELSE IF Head(sorted).tier <= x.tier
         THEN <<Head(sorted)>> \o InsertStable(Tail(sorted), x)
         ELSE <<x>> \o sorted

\* a sort that is not stable: x goes in front of elements with an equal key
RECURSIVE InsertUnstable(_, _)
InsertUnstable(sorted, x) ==
    IF sorted = <<>> THEN <<x>>
    ELSE IF Head(sorted).tier < x.tier
         THEN <<Head(sorted)>> \o InsertUnstable(Tail(sorted), x)
         ELSE <<x>> \o sorted

RECURSIVE SortUnstable(_)
SortUnstable(cands) ==
    IF cands = <<>> THEN <<>>
    ELSE InsertUnstable(SortUnstable(SubSeq(cands, 1, Len(cands) - 1)), cands[Len(cands)])

\* no sort at all: the first candidate in enumeration order is taken
SortNone(cands) == cands

\* candidates.sort(key=lambda x: x[2]): list.sort is stable
RECURSIVE SortByTier(_)
SortByTier(cands) ==
    IF cands = <<>> THEN <<>>
    ELSE InsertStable(SortByTier(SubSeq(cands, 1, Len(cands) - 1)), cands[Len(cands)])

\* candidates[0] after the sort
Selected(ports) == SortByTier(Candidates(ports))[1]

----------------------------------------------------------------------------
(* Inputs and environment *)

Actions == {"on", "off", "toggle", "status"}
Ops == {"turn_on", "turn_off", "toggle", "query_status"}

\* --port: omitted, empty, or an identifier
PortArgs == {NoneStr, SomeStr(""), SomeStr("COM9")}

DeviceNames == <<"COM1", "COM2", "COM3", "COM4">>

Descs == {NoneDesc,
          SomeDesc(<<>>),
          SomeDesc(<<"c","h","3","4","0">>),
          SomeDesc(<<"U","S","B">>),
          SomeDesc(<<"U","s","b","-","S","e","r","i","a","l">>),
          SomeDesc(<<"M","o","u","s","e">>)}

\* the port lists comports() may return: device names follow the position
PortLists ==
    UNION {{[i \in 1..n |-> [device |-> DeviceNames[i], description |-> d[i]]] :
               d \in [1..n -> Descs]} : n \in 0..MaxPorts}

\* the port lists under which main is followed through the transaction, which
\* reads nothing of the list: none or one enumerated port
ShortPortLists == {l \in PortLists : Len(l) <= 1}

\* the port lists explored for a caller of the class
LibPortLists ==
    {<<>>, <<[device |-> DeviceNames[1], description |-> SomeDesc(<<"c","h","3","4","0">>)]>>}

\* outcomes of opening a port: "ok" or the reason of the SerialException
TransportReasons == {"busy", "denied"}
Outcomes == {"ok"} \cup TransportReasons

\* outcomes of write, flush and read on the open port
IOOutcomes == {"ok", "io"}

\* what the device emits after a command reached it
DeviceReplies == {<<>>,
                  <<160, 1, 1, 162>>,
                  <<160, 1, 0, 161>>,
                  <<160, 1>>,
                  <<160, 1, 1>>,
                  <<160, 1, 2, 163>>,
                  <<0, 1, 1, 0>>,
                  <<160, 1, 1, 162, 0>>}

\* the replies and the operations explored for a caller of the class
LibReplies == {<<>>, <<160, 1, 1, 162>>, <<160, 1, 0, 161>>}
LibOps == {"turn_on", "query_status"}

\* the relay after the device received a command frame
RelayAfter(r, cmd) ==
    CASE cmd = CMD_ON -> 1
      [] cmd = CMD_OFF -> 0
      [] cmd = CMD_TOGGLE -> 1 - r
      [] OTHER -> r

\* the frame by which the device reports the relay state r
StatusFrame(r) == IF r = 1 THEN <<160, 1, 1, 162>> ELSE <<160, 1, 0, 161>>

\* what may come back once a command moved the relay to r. For a caller of
\* the class the device answers by the protocol, or not at all; for main the
\* link may also garble, cut or extend the reply.
RepliesTo(m, r) ==
    IF m = "lib" THEN {reply \in LibReplies : reply = <<>> \/ reply = StatusFrame(r)}
    ELSE DeviceReplies

\* bytes left in the OS buffer by an earlier session
StaleBuffers == {<<>>, <<160, 1, 1, 162>>}

\* inputs of _parse_status explored alone
Bytes == {0, 1, 2, 160, 162}
Responses ==
    {NoneBytes} \cup
    UNION {{SomeBytes(b) : b \in [1..n -> Bytes]} : n \in 0..MaxRespLen}

----------------------------------------------------------------------------
(* Helpers of the state machine *)

\* "not x" for an Optional[str]
FalsyStr(x) == x.isNone \/ x.val = ""

IsOpen == ~serial_port.isNone /\ serial_port.is_open

\* where control goes when an operation returns or raises
AfterOp == IF mode = "main" THEN "exit" ELSE IF mode = "lib" THEN "idle" ELSE "parsed"

\* where control goes when the constructor or __enter__ raises
AfterSetupError == IF mode = "main" THEN "done" ELSE "dead"

\* main's return value once an exception reached its handlers
ExitCode(e) == IF e = NoExc THEN 0 ELSE IF e.type = "KeyboardInterrupt" THEN 130 ELSE 1

\* a command table in which query_status sends the toggle frame
CmdOfStatusToggles(o) ==
    CASE o = "turn_on" -> CMD_ON
      [] o = "turn_off" -> CMD_OFF
      [] o = "toggle" -> CMD_TOGGLE
      [] o = "query_status" -> CMD_TOGGLE

CmdOf(o) ==
    CASE o = "turn_on" -> CMD_ON
      [] o = "turn_off" -> CMD_OFF
      [] o = "toggle" -> CMD_TOGGLE
      [] o = "query_status" -> CMD_STATUS

\* the actions dict of main
Dispatch(action) ==
    CASE action = "on" -> "turn_on"
      [] action = "off" -> "turn_off"
      [] action = "toggle" -> "toggle"
      [] action = "status" -> "query_status"

----------------------------------------------------------------------------
(* Initial states *)

\* everything the program has not touched yet
Fresh ==
    /\ port_name = NoneStr
    /\ serial_port = NoSerial
    /\ op = ""
    /\ command = <<>>
    /\ status = UNKNOWN
    /\ exc = NoExc
    /\ rc = -1
    /\ inflight = <<>>
    /\ written = <<>>
    /\ opens = <<>>
    /\ scans = 0
    /\ calls = 0
    /\ exits = 0
    /\ call = NoCall
    /\ hist = NoHist

\* python relay_control.py <action> [--port P]
InitMain ==
    /\ mode = "main"
    /\ args \in [action : Actions, port : PortArgs]
    /\ comports \in ShortPortLists
    /\ inbuf \in StaleBuffers
    /\ pc = "start"
    /\ response = NoneBytes
    /\ relay = 0
    /\ Fresh

\* RelayController(port) under every port list of the bounded set
InitDetect ==
    /\ mode \in {"main", "lib"}
    /\ args \in [action : Actions, port : PortArgs]
    /\ comports \in PortLists
    /\ inbuf = <<>>
    /\ pc = "start"
    /\ response = NoneBytes
    /\ relay = 0
    /\ Fresh

\* a caller of the class: RelayController(port), then methods in any order
InitLib ==
    /\ mode = "lib"
    /\ args \in [action : {"on"}, port : PortArgs]
    /\ comports \in LibPortLists
    /\ inbuf \in StaleBuffers
    /\ pc = "start"
    /\ response = NoneBytes
    /\ relay \in {0, 1}
    /\ Fresh

\* _parse_status called on its own
InitParse ==
    /\ mode = "parse"
    /\ args = [action |-> "status", port |-> NoneStr]
    /\ comports = <<>>
    /\ inbuf = <<>>
    /\ pc = "parse"
    /\ response \in Responses
    /\ relay = 0
    /\ Fresh

Init == InitMain \/ InitLib

----------------------------------------------------------------------------
(* RelayController.__init__ and _auto_detect_port *)

\* self.port_name = port: _auto_detect_port is not evaluated
InitExplicit ==
    /\ pc = "start"
    /\ ~FalsyStr(args.port)
    /\ port_name' = SomeStr(args.port.val)
    /\ pc' = "constructed"
    /\ UNCHANGED <<mode, args, comports, serial_port, op, command, response,
                   status, exc, rc, inbuf, inflight, written, opens, scans,
                   calls, exits, call>>
    /\ UNCHANGED <<relay, hist>>

\* a resolver that probes the first enumerated port although nothing matched
DetectNoneProbing ==
    /\ pc = "start"
    /\ FalsyStr(args.port)
    /\ Candidates(comports) = <<>>
    /\ scans' = scans + 1
    /\ opens' = IF comports = <<>> THEN opens
                ELSE Append(opens, [port |-> comports[1].device, purpose |-> "probe",
                                    result |-> "ok"])
    /\ exc' = RuntimeError("No USB relay device found", "", "")
    /\ pc' = AfterSetupError
    /\ rc' = IF mode = "main" THEN ExitCode(exc') ELSE rc
    /\ UNCHANGED <<mode, args, comports, port_name, serial_port, op, command,
                   response, status, inbuf, inflight, written, calls, exits, call>>
    /\ hist' = [hist EXCEPT !.candidates = Candidates(comports)]
    /\ UNCHANGED relay

\* _auto_detect_port with no candidate: the RuntimeError of lines 168-174
DetectNone ==
    /\ pc = "start"
    /\ FalsyStr(args.port)
    /\ Candidates(comports) = <<>>
    /\ scans' = scans + 1
    /\ exc' = RuntimeError("No USB relay device found", "", "")
    /\ pc' = AfterSetupError
    /\ rc' = IF mode = "main" THEN ExitCode(exc') ELSE rc
    /\ UNCHANGED <<mode, args, comports, port_name, serial_port, op, command,
                   response, status, inbuf, inflight, written, opens, calls,
                   exits, call>>
    /\ hist' = [hist EXCEPT !.candidates = Candidates(comports)]
    /\ UNCHANGED relay

\* a resolver that reports a failed probe with the no-device error
DetectProbeSameError ==
    /\ pc = "start"
    /\ FalsyStr(args.port)
    /\ Candidates(comports) # <<>>
    /\ scans' = scans + 1
    /\ \E r \in Outcomes :
          /\ opens' = Append(opens, [port |-> Selected(comports).device,
                                     purpose |-> "probe", result |-> r])
          /\ IF r = "ok"
             THEN /\ port_name' = SomeStr(Selected(comports).device)
                  /\ pc' = "constructed"
                  /\ UNCHANGED <<exc, rc>>
             ELSE /\ exc' = RuntimeError("No USB relay device found", "", "")
                  /\ pc' = AfterSetupError
                  /\ rc' = IF mode = "main" THEN ExitCode(exc') ELSE rc
                  /\ UNCHANGED port_name
    /\ UNCHANGED <<mode, args, comports, serial_port, op, command, response,
                   status, inbuf, inflight, written, calls, exits, call>>
    /\ hist' = [hist EXCEPT !.candidates = Candidates(comports)]
    /\ UNCHANGED relay

\* _auto_detect_port with candidates: sort, take the first, probe it
DetectProbe ==
    /\ pc = "start"
    /\ FalsyStr(args.port)
    /\ Candidates(comports) # <<>>
    /\ scans' = scans + 1
    /\ \E r \in Outcomes :
          /\ opens' = Append(opens, [port |-> Selected(comports).device,
                                     purpose |-> "probe", result |-> r])
          /\ IF r = "ok"
             THEN /\ port_name' = SomeStr(Selected(comports).device)
                  /\ pc' = "constructed"
                  /\ UNCHANGED <<exc, rc>>
             ELSE /\ exc' = RuntimeError("Driver check failed", Selected(comports).device, r)
                  /\ pc' = AfterSetupError
                  /\ rc' = IF mode = "main" THEN ExitCode(exc') ELSE rc
                  /\ UNCHANGED port_name
    /\ UNCHANGED <<mode, args, comports, serial_port, op, command, response,
                   status, inbuf, inflight, written, calls, exits, call>>
    /\ hist' = [hist EXCEPT !.candidates = Candidates(comports)]
    /\ UNCHANGED relay

----------------------------------------------------------------------------
(* __enter__ and __exit__ *)

\* main enters the with block right after construction; a caller of the class
\* may enter once, at any time between operations
MayEnter ==
    \/ mode = "main" /\ pc = "constructed"
    \/ mode = "lib" /\ pc = "idle" /\ exits = 0
         /\ ~\E i \in 1..Len(opens) : opens[i].purpose = "connect"

\* an __enter__ that does not discard the input buffer
EnterNoReset ==
    /\ MayEnter
    /\ \E f \in {"none", "open", "reset_output_buffer"} :
       \E r \in IF f = "open" THEN TransportReasons ELSE {"ok"} :
          /\ opens' = Append(opens, [port |-> port_name.val, purpose |-> "connect",
                                     result |-> IF f = "open" THEN r ELSE "ok"])
          /\ serial_port' = IF f = "open" THEN serial_port
                            ELSE [isNone |-> FALSE, is_open |-> TRUE, port |-> port_name.val]
          /\ hist' = [hist EXCEPT !.entered = (f = "none"),
                                  !.stale = IF f = "open" THEN @ ELSE inbuf,
                                  !.emitted = IF f = "open" THEN @ ELSE @ \o inbuf]
          /\ IF f = "none"
             THEN /\ pc' = IF mode = "main" THEN "body" ELSE "idle"
                  /\ UNCHANGED <<exc, rc>>
             ELSE /\ exc' = SerialException(IF f = "open" THEN r ELSE "io")
                  /\ pc' = IF mode = "main" THEN "done" ELSE "idle"
                  /\ rc' = IF mode = "main" THEN ExitCode(exc') ELSE rc
    /\ UNCHANGED <<mode, args, comports, port_name, op, command, response, inbuf,
                   status, inflight, written, scans, calls, exits, call>>
    /\ UNCHANGED relay

\* __enter__: open the port, then discard both buffers. f is the call that
\* raises, if any. An exception leaves __enter__ before the with block is
\* entered, so __exit__ does not run for it, and nothing in the program calls
\* close() on the port that line 195 opened.
Enter ==
    /\ MayEnter
    /\ \E f \in {"none", "open", "reset_input_buffer", "reset_output_buffer"} :
       \E r \in IF f = "open" THEN TransportReasons ELSE {"ok"} :
          /\ opens' = Append(opens, [port |-> port_name.val, purpose |-> "connect",
                                     result |-> IF f = "open" THEN r ELSE "ok"])
          /\ serial_port' = IF f = "open" THEN serial_port
                            ELSE [isNone |-> FALSE, is_open |-> TRUE, port |-> port_name.val]
          /\ inbuf' = IF f \in {"open", "reset_input_buffer"} THEN inbuf ELSE <<>>
          /\ hist' = [hist EXCEPT !.entered = (f = "none"),
                                  !.stale = IF f = "open" THEN @ ELSE inbuf,
                                  !.emitted = IF f = "reset_input_buffer"
                                              THEN @ \o inbuf ELSE @]
          /\ IF f = "none"
             THEN /\ pc' = IF mode = "main" THEN "body" ELSE "idle"
                  /\ UNCHANGED <<exc, rc>>
             ELSE /\ exc' = SerialException(IF f = "open" THEN r ELSE "io")
                  /\ pc' = IF mode = "main" THEN "done" ELSE "idle"
                  /\ rc' = IF mode = "main" THEN ExitCode(exc') ELSE rc
    /\ UNCHANGED <<mode, args, comports, port_name, op, command, response,
                   status, inflight, written, scans, calls, exits, call>>
    /\ UNCHANGED relay

\* an __exit__ that forgets to close
ExitNoClose ==
    /\ \/ mode = "main" /\ pc = "exit"
       \/ mode = "lib" /\ pc = "idle" /\ exits = 0
    /\ exits' = exits + 1
    /\ pc' = IF mode = "main" THEN "done" ELSE "idle"
    /\ rc' = IF mode = "main" THEN ExitCode(exc) ELSE rc
    /\ UNCHANGED <<mode, args, comports, port_name, serial_port, op, command, response,
                   status, exc, inbuf, inflight, written, opens, scans, calls, call>>
    /\ UNCHANGED <<relay, hist>>

\* an __exit__ that returns a true value: the exception of the with block is
\* swallowed and main goes on to return 0
ExitSuppresses ==
    /\ \/ mode = "main" /\ pc = "exit"
       \/ mode = "lib" /\ pc = "idle" /\ exits = 0
    /\ serial_port' = IF IsOpen THEN [serial_port EXCEPT !.is_open = FALSE]
                      ELSE serial_port
    /\ exits' = exits + 1
    /\ pc' = IF mode = "main" THEN "done" ELSE "idle"
    /\ rc' = IF mode = "main" THEN 0 ELSE rc
    /\ UNCHANGED <<mode, args, comports, port_name, op, command, response,
                   status, exc, inbuf, inflight, written, opens, scans, calls, call>>
    /\ UNCHANGED <<relay, hist>>

\* __exit__: close the port if there is one and it is open. In main the with
\* block has ended, by return or by exception, and main returns.
Exit ==
    /\ \/ mode = "main" /\ pc = "exit"
       \/ mode = "lib" /\ pc = "idle" /\ exits = 0
    /\ serial_port' = IF IsOpen THEN [serial_port EXCEPT !.is_open = FALSE]
                      ELSE serial_port
    /\ exits' = exits + 1
    /\ pc' = IF mode = "main" THEN "done" ELSE "idle"
    /\ rc' = IF mode = "main" THEN ExitCode(exc) ELSE rc
    /\ UNCHANGED <<mode, args, comports, port_name, op, command, response,
                   status, exc, inbuf, inflight, written, opens, scans, calls, call>>
    /\ UNCHANGED <<relay, hist>>

----------------------------------------------------------------------------
(* The four operations: _execute_action, _send_command, _parse_status *)

\* the operation ends by raising e
Raise(e, f) ==
    /\ exc' = e
    /\ call' = [call EXCEPT !.outcome = "raised", !.failed = f, !.exc = e,
                            !.steps = IF f = "none" THEN @ ELSE Append(@, f)]
    /\ pc' = AfterOp

\* what is remembered of an operation call when the next one starts; exact
\* says that the call read the device's reply to its own command, all of it
\* and nothing else
Summary(c, resp) ==
    [op |-> c.op, outcome |-> c.outcome, verdict |-> c.verdict,
     exact |-> /\ c.outcome = "returned"
               /\ c.reads = 1
               /\ Len(c.reply) > 0
               /\ c.readFrom = c.base
               /\ Len(resp.val) = Len(c.reply)]

\* a port check that only tests that there is a serial_port object
CallOpNoOpenCheck(o) ==
    /\ \/ mode = "main" /\ pc = "body" /\ o = Dispatch(args.action)
       \/ mode = "lib" /\ pc = "idle" /\ calls < MaxCalls /\ o \in LibOps
    /\ calls' = calls + 1
    /\ op' = o
    /\ command' = CmdOf(o)
    /\ response' = NoneBytes
    /\ hist' = [hist EXCEPT !.prev = Summary(call, response)]
    /\ UNCHANGED relay
    /\ IF ~serial_port.isNone
       THEN /\ call' = [NoCall EXCEPT !.op = o, !.wasOpen = IsOpen, !.outcome = "running"]
            /\ exc' = NoExc
            /\ pc' = "write"
       ELSE /\ call' = [NoCall EXCEPT !.op = o, !.outcome = "raised",
                                      !.exc = RuntimeError("Serial port not opened", "", "")]
            /\ exc' = RuntimeError("Serial port not opened", "", "")
            /\ pc' = AfterOp
    /\ UNCHANGED <<mode, args, comports, port_name, serial_port, status, rc,
                   inbuf, inflight, written, opens, scans, exits>>

\* turn_on / turn_off / toggle / query_status are called: _execute_action
\* calls _send_command, which raises when the port is not open
CallOp(o) ==
    /\ \/ mode = "main" /\ pc = "body" /\ o = Dispatch(args.action)
       \/ mode = "lib" /\ pc = "idle" /\ calls < MaxCalls /\ o \in LibOps
    /\ calls' = calls + 1
    /\ op' = o
    /\ command' = CmdOf(o)
    /\ response' = NoneBytes
    /\ hist' = [hist EXCEPT !.prev = Summary(call, response)]
    /\ UNCHANGED relay
    /\ IF IsOpen
       THEN /\ call' = [NoCall EXCEPT !.op = o, !.wasOpen = TRUE, !.outcome = "running"]
            /\ exc' = NoExc
            /\ pc' = "write"
       ELSE /\ call' = [NoCall EXCEPT !.op = o, !.outcome = "raised",
                                      !.exc = RuntimeError("Serial port not opened", "", "")]
            /\ exc' = RuntimeError("Serial port not opened", "", "")
            /\ pc' = AfterOp
    /\ UNCHANGED <<mode, args, comports, port_name, serial_port, status, rc,
                   inbuf, inflight, written, opens, scans, exits>>

\* a write that sends the frame twice
WriteTwice ==
    /\ pc = "write"
    /\ written' = written \o <<command, command>>
    /\ call' = [call EXCEPT !.writes = @ \o <<command, command>>]
    /\ pc' = "flush"
    /\ UNCHANGED <<mode, args, comports, port_name, serial_port, op, command, response,
                   status, exc, rc, inbuf, inflight, opens, scans, calls, exits>>
    /\ UNCHANGED <<relay, hist>>

\* self.serial_port.write(command): the call raises, or the frame goes out
\* and the device emits its reply, which is then in flight
Write ==
    /\ pc = "write"
    /\ written' = Append(written, command)
    /\ \E r \in IOOutcomes :
          IF r = "ok"
          THEN /\ relay' = RelayAfter(relay, command)
               /\ \E reply \in RepliesTo(mode, relay') :
                     /\ inflight' = inflight \o reply
                     /\ hist' = [hist EXCEPT !.emitted = @ \o reply]
                     /\ call' = [call EXCEPT !.writes = Append(@, command),
                                             !.steps = Append(@, "write"),
                                             !.reply = reply,
                                             !.base = Len(hist.emitted)]
               /\ pc' = "flush"
               /\ UNCHANGED exc
          ELSE /\ exc' = SerialException(r)
               /\ call' = [call EXCEPT !.writes = Append(@, command),
                                       !.steps = Append(@, "write"),
                                       !.outcome = "raised", !.failed = "write",
                                       !.exc = SerialException(r)]
               /\ pc' = AfterOp
               /\ UNCHANGED <<inflight, relay, hist>>
    /\ UNCHANGED <<mode, args, comports, port_name, serial_port, op, command, response,
                   status, rc, inbuf, opens, scans, calls, exits>>

\* a transaction that skips the wait when reply bytes are already buffered
FlushSkipsWait ==
    /\ pc = "flush"
    /\ \E r \in IOOutcomes :
          IF r = "ok"
          THEN /\ pc' = IF Len(inbuf) > 0 THEN "in_waiting" ELSE "sleep"
               /\ call' = [call EXCEPT !.steps = Append(@, "flush")]
               /\ UNCHANGED exc
          ELSE Raise(SerialException(r), "flush")
    /\ UNCHANGED <<mode, args, comports, port_name, serial_port, op, command, response,
                   status, rc, inbuf, inflight, written, opens, scans, calls, exits>>
    /\ UNCHANGED <<relay, hist>>

\* self.serial_port.flush()
Flush ==
    /\ pc = "flush"
    /\ \E r \in IOOutcomes :
          IF r = "ok"
          THEN /\ pc' = "sleep"
               /\ call' = [call EXCEPT !.steps = Append(@, "flush")]
               /\ UNCHANGED exc
          ELSE Raise(SerialException(r), "flush")
    /\ UNCHANGED <<mode, args, comports, port_name, serial_port, op, command, response,
                   status, rc, inbuf, inflight, written, opens, scans, calls, exits>>
    /\ UNCHANGED <<relay, hist>>

\* time.sleep(RESPONSE_DELAY)
Sleep ==
    /\ pc = "sleep"
    /\ call' = [call EXCEPT !.slept = TRUE, !.early = (Len(inbuf) > 0),
                            !.steps = Append(@, "sleep")]
    /\ UNCHANGED <<relay, hist>>
    /\ pc' = "in_waiting"
    /\ UNCHANGED <<mode, args, comports, port_name, serial_port, op, command, response,
                   status, exc, rc, inbuf, inflight, written, opens, scans, calls, exits>>

\* a transaction that reads even when nothing is buffered
InWaitingAlwaysRead ==
    /\ pc = "in_waiting"
    /\ pc' = "read"
    /\ call' = [call EXCEPT !.avail = Len(inbuf), !.steps = Append(@, "in_waiting")]
    /\ UNCHANGED <<mode, args, comports, port_name, serial_port, op, command, response,
                   status, exc, rc, inbuf, inflight, written, opens, scans, calls,
                   exits, relay, hist>>

\* if self.serial_port.in_waiting > 0: ... else return None
\* (in_waiting is a property read; the transport calls that can raise are
\* write, flush and read)
InWaiting ==
    /\ pc = "in_waiting"
    /\ IF Len(inbuf) > 0
       THEN /\ pc' = "read"
            /\ UNCHANGED response
       ELSE /\ response' = NoneBytes
            /\ pc' = "parse"
    /\ call' = [call EXCEPT !.avail = Len(inbuf), !.steps = Append(@, "in_waiting")]
    /\ UNCHANGED <<mode, args, comports, port_name, serial_port, op, command,
                   status, exc, rc, inbuf, inflight, written, opens, scans, calls,
                   exits, relay, hist>>

\* self.serial_port.read(self.serial_port.in_waiting): everything buffered now
Read ==
    /\ pc = "read"
    /\ \E r \in IOOutcomes :
          IF r = "ok"
          THEN /\ response' = SomeBytes(inbuf)
               /\ inbuf' = <<>>
               /\ call' = [call EXCEPT !.reads = @ + 1, !.steps = Append(@, "read"),
                                       !.readFrom = Len(hist.consumed)]
               /\ hist' = [hist EXCEPT !.consumed = @ \o inbuf]
               /\ pc' = "parse"
               /\ UNCHANGED exc
          ELSE /\ Raise(SerialException(r), "read")
               /\ UNCHANGED <<response, inbuf, hist>>
    /\ UNCHANGED relay
    /\ UNCHANGED <<mode, args, comports, port_name, serial_port, op, command,
                   status, rc, inflight, written, opens, scans, calls, exits>>

\* status = self._parse_status(response); return status
Parse ==
    /\ pc = "parse"
    /\ IF _parse_status(response).exc = NoExc
       THEN /\ status' = _parse_status(response).ret
            /\ call' = [call EXCEPT !.outcome = "returned",
                                    !.verdict = _parse_status(response).ret]
            /\ pc' = AfterOp
            /\ UNCHANGED exc
       ELSE /\ Raise(_parse_status(response).exc, "none")
            /\ UNCHANGED status
    /\ UNCHANGED <<mode, args, comports, port_name, serial_port, op, command, response,
                   rc, inbuf, inflight, written, opens, scans, calls, exits>>
    /\ UNCHANGED <<relay, hist>>

----------------------------------------------------------------------------
(* The environment *)

\* the next k bytes in flight reach the OS buffer of the open port: all of
\* them, or the two header bytes first
Arrive(k) ==
    /\ IsOpen
    /\ k <= Len(inflight)
    /\ k \in {2, Len(inflight)}
    /\ inbuf' = inbuf \o SubSeq(inflight, 1, k)
    /\ inflight' = SubSeq(inflight, k + 1, Len(inflight))
    /\ UNCHANGED <<mode, args, comports, pc, port_name, serial_port, op, command,
                   response, status, exc, rc, written, opens, scans, calls, exits, call>>
    /\ UNCHANGED <<relay, hist>>

\* the caller of the class has the constructed controller in hand
LibStart ==
    /\ mode = "lib"
    /\ pc = "constructed"
    /\ pc' = "idle"
    /\ UNCHANGED <<mode, args, comports, port_name, serial_port, op, command, response,
                   status, exc, rc, inbuf, inflight, written, opens, scans, calls,
                   exits, call>>
    /\ UNCHANGED <<relay, hist>>

\* Ctrl-C while main runs: KeyboardInterrupt is raised at the point reached.
\* Inside the with block it passes through __exit__ first; main's handler
\* then returns 130.
Interrupt ==
    /\ mode = "main"
    /\ exc.type # "KeyboardInterrupt"
    /\ pc \in {"start", "constructed", "body", "write", "flush", "sleep",
               "in_waiting", "read", "parse", "exit"}
    /\ exc' = KeyboardInterrupt
    /\ IF pc \in {"start", "constructed"}
       THEN /\ pc' = "done"
            /\ rc' = ExitCode(exc')
            /\ UNCHANGED call
       ELSE /\ pc' = "exit"
            /\ call' = IF call.outcome = "running"
                       THEN [call EXCEPT !.outcome = "interrupted"]
                       ELSE call
            /\ UNCHANGED rc
    /\ UNCHANGED <<mode, args, comports, port_name, serial_port, op, command, response,
                   status, inbuf, inflight, written, opens, scans, calls, exits,
                   relay, hist>>

----------------------------------------------------------------------------
(* Specifications *)

Next ==
    \/ InitExplicit
    \/ DetectNone
    \/ DetectProbe
    \/ LibStart
    \/ Enter
    \/ \E o \in Ops : CallOp(o)
    \/ Write
    \/ Flush
    \/ Sleep
    \/ InWaiting
    \/ Read
    \/ Parse
    \/ Exit
    \/ \E k \in 1..5 : Arrive(k)

Spec == Init /\ [][Next]_vars

\* the constructor alone: port resolution over every port list
NextDetect ==
    \/ InitExplicit
    \/ DetectNone
    \/ DetectProbe

SpecDetect == InitDetect /\ [][NextDetect]_vars

\* main with a keyboard interrupt possible at every point of its try block
NextInt ==
    \/ InitExplicit
    \/ DetectNone
    \/ DetectProbe
    \/ Enter
    \/ \E o \in Ops : CallOp(o)
    \/ Write
    \/ Flush
    \/ Sleep
    \/ InWaiting
    \/ Read
    \/ Parse
    \/ Exit
    \/ \E k \in 1..5 : Arrive(k)
    \/ Interrupt

SpecInt == InitMain /\ [][NextInt]_vars

\* _parse_status alone, on every response of the bounded set
SpecParse == InitParse /\ [][Parse]_vars

----------------------------------------------------------------------------
(* Properties of _parse_status, checked under SpecParse *)

\* C1: a response of at least 4 bytes that starts with A0 01 decodes to ON
\* when byte 2 is 01 and to OFF when byte 2 is 00, whatever follows byte 2.
C1_DecodesOnOff ==
    (/\ pc = "parsed"
     /\ ~response.isNone
     /\ Len(response.val) >= 4
     /\ response.val[1] = 160
     /\ response.val[2] = 1)
    => /\ exc = NoExc
       /\ response.val[3] = 1 => status = ON
       /\ response.val[3] = 0 => status = OFF

\* a 5-byte frame with an arbitrary tail was decoded to ON
C1_Witness ==
    /\ pc = "parsed"
    /\ response = SomeBytes(<<160, 1, 1, 2, 0>>)
    /\ status = ON

\* C2: a response of at least 4 bytes with the header A0 01 whose state byte
\* is neither 00 nor 01 decodes to UNKNOWN.
C2_OtherStateByteUnknown ==
    (/\ pc = "parsed"
     /\ ~response.isNone
     /\ Len(response.val) >= 4
     /\ response.val[1] = 160
     /\ response.val[2] = 1
     /\ response.val[3] \notin {0, 1})
    => status = UNKNOWN

\* C3: an absent or empty response, one shorter than 4 bytes, or one whose
\* first two bytes are not A0 01, decodes to UNKNOWN and nothing is raised.
C3_InvalidIsUnknown ==
    (/\ pc = "parsed"
     /\ \/ response.isNone
        \/ Len(response.val) < 4
        \/ response.val[1] # 160
        \/ response.val[2] # 1)
    => /\ status = UNKNOWN
       /\ exc = NoExc
       /\ call.outcome = "returned"

\* the 3-byte frame A0 01 01 was decoded to UNKNOWN
C3_Witness ==
    /\ pc = "parsed"
    /\ response = SomeBytes(<<160, 1, 1>>)
    /\ status = UNKNOWN
    /\ exc = NoExc

----------------------------------------------------------------------------
(* Properties of the program, checked under Spec *)

\* C4 as stated: every byte sequence written is one of the four literal
\* frames, and every call of an operation, whatever the state it is made in,
\* writes the frame of that operation exactly once.
C4_EveryCallWritesOnce ==
    /\ \A i \in 1..Len(written) :
          written[i] \in {<<160, 1, 0, 161>>, <<160, 1, 3, 164>>,
                          <<160, 1, 4, 165>>, <<160, 1, 5, 166>>}
    /\ call.outcome \in {"returned", "raised"} =>
          call.writes = << [turn_off |-> <<160, 1, 0, 161>>,
                            turn_on |-> <<160, 1, 3, 164>>,
                            toggle |-> <<160, 1, 4, 165>>,
                            query_status |-> <<160, 1, 5, 166>>][call.op] >>

\* C4 (amended): every byte sequence written is one of the four literal
\* frames; a call of an operation on an open connection issues exactly one
\* write, of the frame of that operation, whatever happened before; a call on
\* a connection that is not open writes nothing.
C4_OpenCallWritesOnce ==
    /\ \A i \in 1..Len(written) :
          written[i] \in {<<160, 1, 0, 161>>, <<160, 1, 3, 164>>,
                          <<160, 1, 4, 165>>, <<160, 1, 5, 166>>}
    /\ Len(call.writes) <= 1
    /\ call.outcome \in {"returned", "raised"} =>
          call.writes =
             IF call.wasOpen
             THEN << [turn_off |-> <<160, 1, 0, 161>>,
                      turn_on |-> <<160, 1, 3, 164>>,
                      toggle |-> <<160, 1, 4, 165>>,
                      query_status |-> <<160, 1, 5, 166>>][call.op] >>
             ELSE <<>>

\* the second operation on one connection has returned, after a first one
\* that left bytes behind: both frames were written, each once
C4_Witness ==
    /\ calls = 2
    /\ call.outcome = "returned"
    /\ call.op = "query_status"
    /\ written = << <<160, 1, 3, 164>>, <<160, 1, 5, 166>> >>

\* C5: when main returns the connection is closed, whether the transaction
\* gave a verdict, was indeterminate or raised; no invocation of main ends
\* with the port open.
C5_ClosedWhenMainReturns ==
    (mode = "main" /\ pc = "done") => ~IsOpen

\* the part of C5 about invocations that ran a transaction
ClosedAfterTransaction ==
    (mode = "main" /\ pc = "done" /\ calls > 0) => ~IsOpen

\* C6: when __enter__ has opened the port and a later setup step raises, the
\* opened connection is closed before the invocation ends.
C6_SetupFailureCloses ==
    (/\ mode = "main"
     /\ pc = "done"
     /\ calls = 0
     /\ \E i \in 1..Len(opens) : opens[i].purpose = "connect" /\ opens[i].result = "ok"
     /\ exc # NoExc)
    => (~serial_port.isNone /\ ~serial_port.is_open)

\* C7: an operation called on an open connection whose write, flush and read
\* calls do not fail returns a verdict and raises nothing, whatever the device
\* sent; an operation raises only when the port was not open or a transport
\* call failed.
C7_VerdictUnlessTransportFails ==
    /\ (/\ call.outcome \in {"returned", "raised"}
        /\ call.wasOpen
        /\ call.failed = "none")
       => /\ call.outcome = "returned"
          /\ status \in {ON, OFF, UNKNOWN}
          /\ call.exc = NoExc
    /\ call.outcome = "raised" =>
          \/ ~call.wasOpen /\ call.exc = RuntimeError("Serial port not opened", "", "")
          \/ call.failed \in {"write", "flush", "read"} /\ call.exc.type = "SerialException"

\* a partial reply (the two header bytes) was read and the operation returned
C7_Witness ==
    /\ call.outcome = "returned"
    /\ response = SomeBytes(<<160, 1>>)
    /\ status = UNKNOWN
    /\ call.exc = NoExc

\* C8: the probed (selected) port is the first port in enumeration order of
\* the best tier present: a tier-1 port wherever it appears in the list when
\* there is one, otherwise the first tier-2 port.
C8_SelectsFirstOfBestTier ==
    (Len(opens) >= 1 /\ opens[1].purpose = "probe")
    => LET best == IF \E i \in 1..Len(comports) : Tier(comports[i]) = 1 THEN 1 ELSE 2
           first == CHOOSE i \in 1..Len(comports) :
                       /\ Tier(comports[i]) = best
                       /\ \A j \in 1..(i - 1) : Tier(comports[j]) # best
       IN  /\ opens[1].port = comports[first].device
           /\ opens[1].result = "ok" => port_name = SomeStr(comports[first].device)

\* a tier-1 port enumerated after a tier-2 port was selected
C8_Witness ==
    /\ Len(comports) = 2
    /\ Tier(comports[1]) = 2
    /\ Tier(comports[2]) = 1
    /\ port_name = SomeStr(comports[2].device)

\* C9: with no port supplied and no enumerated port matching a keyword set
\* (or none enumerated), resolution raises the discovery error, no port is
\* ever opened (no probe, no connection) and no byte is written.
C9_NoCandidateNoOpen ==
    (/\ pc # "start"
     /\ args.port.isNone
     /\ \A i \in 1..Len(comports) : Tier(comports[i]) = 0)
    => /\ exc = RuntimeError("No USB relay device found", "", "")
       /\ opens = <<>>
       /\ written = <<>>
       /\ serial_port = NoSerial
       /\ calls = 0
       /\ mode = "main" => (pc = "done" /\ rc = 1)

\* resolution failed on a list of two ports that match nothing
C9_Witness ==
    /\ pc = "done"
    /\ args.port.isNone
    /\ Len(comports) = 2
    /\ \A i \in 1..Len(comports) : Tier(comports[i]) = 0
    /\ exc.msg = "No USB relay device found"

\* C10: when the probe of the selected candidate fails, the error raised is
\* the access error, not the discovery error, and names the port and the
\* transport reason; nothing else is opened (no other candidate, no
\* connection) and nothing is written.
C10_ProbeFailureIsAccessError ==
    (Len(opens) >= 1 /\ opens[1].purpose = "probe" /\ opens[1].result # "ok")
    => /\ exc.type = "RuntimeError"
       /\ exc.msg = "Driver check failed"
       /\ exc.msg # "No USB relay device found"
       /\ exc.port = opens[1].port
       /\ exc.cause = opens[1].result
       /\ Len(opens) = 1
       /\ written = <<>>
       /\ serial_port = NoSerial
       /\ calls = 0
       /\ mode = "main" => (pc = "done" /\ rc = 1)

\* the probe failed although a second candidate was enumerated
C10_Witness ==
    /\ pc = "done"
    /\ Len(comports) = 2
    /\ Tier(comports[1]) = 1
    /\ Tier(comports[2]) = 1
    /\ opens = <<[port |-> comports[1].device, purpose |-> "probe", result |-> "busy"]>>
    /\ exc.cause = "busy"

----------------------------------------------------------------------------
(* Properties of construction, lifecycle and the transaction steps *)

\* C11: when a port is given to the constructor, the port list is not
\* enumerated, no probe is opened, and the connection is opened on the given
\* identifier; the resolver runs only when the port is omitted.
C11_GivenPortBypassesDiscovery ==
    (pc # "start" /\ ~args.port.isNone)
    => /\ scans = 0
       /\ \A i \in 1..Len(opens) :
             opens[i].purpose = "connect" /\ opens[i].port = args.port.val
       /\ port_name = SomeStr(args.port.val)

\* the part of C11 that holds: a non-empty port bypasses discovery
NonEmptyPortBypassesDiscovery ==
    (pc # "start" /\ ~args.port.isNone /\ args.port.val # "")
    => /\ scans = 0
       /\ \A i \in 1..Len(opens) :
             opens[i].purpose = "connect" /\ opens[i].port = args.port.val
       /\ port_name = SomeStr(args.port.val)

\* C13: an invocation of main enumerates at most once (never when a port is
\* supplied), probes at most once, opens the connection at most once and
\* writes at most once, in the order discovery, open, transaction, close;
\* after a failed step none of the later steps happens.
C13_OnePassOneTransaction ==
    mode = "main" =>
       LET probes == {i \in 1..Len(opens) : opens[i].purpose = "probe"}
           connects == {i \in 1..Len(opens) : opens[i].purpose = "connect"}
       IN  /\ scans <= 1
           /\ ~args.port.isNone => scans = 0
           /\ Cardinality(probes) <= 1
           /\ Cardinality(connects) <= 1
           /\ calls <= 1
           /\ Len(written) <= 1
           /\ exits <= 1
           /\ probes # {} => scans = 1
           /\ \A i \in connects :
                 /\ ~port_name.isNone
                 /\ \A j \in probes : j < i /\ opens[j].result = "ok"
           /\ calls > 0 => hist.entered
           /\ Len(written) > 0 => calls > 0
           /\ exits > 0 => (calls > 0 /\ call.outcome # "running" /\ ~IsOpen)
           /\ pc = "done" => rc \in {0, 1}

\* the part of C13 that holds: the same, with discovery skipped exactly when
\* the port given is not empty
OnePassOneTransactionNonEmpty ==
    mode = "main" =>
       LET probes == {i \in 1..Len(opens) : opens[i].purpose = "probe"}
           connects == {i \in 1..Len(opens) : opens[i].purpose = "connect"}
       IN  /\ scans <= 1
           /\ (~args.port.isNone /\ args.port.val # "") => scans = 0
           /\ Cardinality(probes) <= 1
           /\ Cardinality(connects) <= 1
           /\ calls <= 1
           /\ Len(written) <= 1
           /\ exits <= 1
           /\ probes # {} => scans = 1
           /\ \A i \in connects :
                 /\ ~port_name.isNone
                 /\ \A j \in probes : j < i /\ opens[j].result = "ok"
           /\ calls > 0 => hist.entered
           /\ Len(written) > 0 => calls > 0
           /\ exits > 0 => (calls > 0 /\ call.outcome # "running" /\ ~IsOpen)
           /\ pc = "done" => rc \in {0, 1}

\* C14: an operation called while the connection is not open raises the
\* lifecycle error at once: it writes nothing, does not wait and does not
\* read.
C14_NotOpenRaisesFirst ==
    (call.outcome # "none" /\ ~call.wasOpen)
    => /\ call.outcome = "raised"
       /\ call.exc = RuntimeError("Serial port not opened", "", "")
       /\ call.writes = <<>>
       /\ call.steps = <<>>
       /\ ~call.slept
       /\ call.reads = 0
       /\ pc \notin {"write", "flush", "sleep", "in_waiting", "read", "parse"}

\* an operation was called after __exit__ had closed the connection
C14_Witness ==
    /\ exits = 1
    /\ ~serial_port.isNone
    /\ ~serial_port.is_open
    /\ call.outcome = "raised"
    /\ ~call.wasOpen
    /\ Len(written) = 1

\* C15: the steps of a transaction occur in the order write, flush, settle
\* wait, buffered-count check, read; nothing is read and no verdict is
\* returned before the wait, also when reply bytes were buffered before it.
C15_StepsInOrder ==
    /\ \E n \in 0..5 :
          call.steps = SubSeq(<<"write", "flush", "sleep", "in_waiting", "read">>, 1, n)
    /\ call.reads > 0 => call.slept
    /\ call.avail >= 0 => call.slept
    /\ call.outcome = "returned" => call.slept
    /\ call.verdict # "none" => call.slept
    /\ pc \in {"in_waiting", "read", "parse"} /\ mode # "parse" => call.slept

\* reply bytes were buffered when the wait began, and the operation went
\* through all five steps before it returned
C15_Witness ==
    /\ call.early
    /\ call.outcome = "returned"
    /\ call.steps = <<"write", "flush", "sleep", "in_waiting", "read">>

\* C16: when nothing is buffered at the end of the settle wait, the operation
\* returns UNKNOWN without a read call, a second wait or a second write, and
\* bytes arriving afterwards do not change the verdict of that call.
C16_NothingBufferedNoRead ==
    call.avail = 0
    => /\ call.reads = 0
       /\ call.steps = <<"write", "flush", "sleep", "in_waiting">>
       /\ call.writes = <<command>>
       /\ call.outcome \in {"running", "returned"}
       /\ call.outcome = "running" => pc = "parse"
       /\ call.outcome = "returned" => call.verdict = UNKNOWN
       /\ call.readFrom = 0

\* nothing was buffered when the wait ended; the reply arrived after the
\* operation had returned UNKNOWN
C16_Witness ==
    /\ call.avail = 0
    /\ call.outcome = "returned"
    /\ call.verdict = UNKNOWN
    /\ Len(call.reply) > 0
    /\ inbuf = call.reply

\* C17: bytes buffered on the port before it was opened are gone when
\* __enter__ has completed, before any command is written, and no operation
\* reads them: what is read is a prefix of what the device emitted since.
C17_StaleBytesDiscarded ==
    hist.entered
    => /\ calls = 0 => inbuf = <<>>
       /\ Len(hist.consumed) <= Len(hist.emitted)
       /\ hist.consumed = SubSeq(hist.emitted, 1, Len(hist.consumed))

\* a frame was buffered before the port was opened, and the operation read
\* the reply to its own command only
C17_Witness ==
    /\ hist.entered
    /\ hist.stale = <<160, 1, 1, 162>>
    /\ call.outcome = "returned"
    /\ call.reads = 1
    /\ response = SomeBytes(<<160, 1, 0, 161>>)
    /\ call.reply = <<160, 1, 0, 161>>

\* C18: every enumerated port yields at most one candidate: tier 1 when its
\* description contains a chipset keyword in any letter case, also when it
\* contains USB as well; tier 2 when it contains USB and no chipset keyword;
\* none when it matches neither or the description is absent or empty.
C18_OneCandidatePerMatchingPort ==
    scans >= 1
    => LET expected(d) ==
               CASE d = NoneDesc -> 0
                 [] d = SomeDesc(<<>>) -> 0
                 [] d = SomeDesc(<<"c","h","3","4","0">>) -> 1
                 [] d = SomeDesc(<<"U","S","B">>) -> 2
                 [] d = SomeDesc(<<"U","s","b","-","S","e","r","i","a","l">>) -> 1
                 [] d = SomeDesc(<<"M","o","u","s","e">>) -> 0
           matching == {i \in 1..Len(comports) : expected(comports[i].description) # 0}
       IN  /\ Len(hist.candidates) = Cardinality(matching)
           /\ \A i \in matching :
                 \E k \in 1..Len(hist.candidates) :
                    hist.candidates[k] =
                       [device |-> comports[i].device,
                        description |-> comports[i].description,
                        tier |-> expected(comports[i].description)]
           /\ \A k \in 1..Len(hist.candidates) :
                 \E i \in matching : hist.candidates[k].device = comports[i].device

\* a port described "Usb-Serial" became the one tier-1 candidate; the port
\* without a description became none
C18_Witness ==
    /\ scans = 1
    /\ Len(comports) = 2
    /\ comports[1].description = NoneDesc
    /\ comports[2].description = SomeDesc(<<"U","s","b","-","S","e","r","i","a","l">>)
    /\ hist.candidates = <<[device |-> "COM2",
                            description |-> comports[2].description, tier |-> 1]>>

\* C19: the bytes an operation reads, and computes its verdict from, were
\* all emitted by the device in reply to the command of that operation: none
\* of them was emitted before the command was written.
C19_ReadsOwnReplyOnly ==
    (hist.entered /\ call.reads > 0) => call.readFrom >= call.base

----------------------------------------------------------------------------
(* Properties of the verdicts and of main's return value *)

C20_ReturnCode ==
    /\ pc # "done" => rc = -1
    /\ (mode = "main" /\ pc = "done")
       => /\ rc \in {0, 1, 130}
          /\ rc = 0 <=> (/\ ~port_name.isNone
                         /\ hist.entered
                         /\ calls = 1
                         /\ call.outcome = "returned"
                         /\ call.verdict \in {ON, OFF, UNKNOWN}
                         /\ exc = NoExc)
          /\ rc = 130 <=> exc.type = "KeyboardInterrupt"
          /\ rc = 1 <=> exc.type \in {"RuntimeError", "SerialException", "IndexError"}

\* main returned 0 although the device reported OFF after turn_on
C20_Witness ==
    /\ pc = "done"
    /\ rc = 0
    /\ op = "turn_on"
    /\ call.verdict = OFF

====
